---- MODULE Spec2Model ----
(***************************************************************************)
(* Job supervisor of the PDF to DOCX converter: the web application        *)
(* (app.py) that spawns one conversion worker process per job              *)
(* (conversion_worker.py), the monitor thread that mirrors the worker's    *)
(* status file into the job registry, and the status, download, cleanup,   *)
(* heartbeat and cancel routes.                                            *)
(*                                                                         *)
(* Python dicts are functions whose DOMAIN is the set of keys present.     *)
(* A JSON file is [kind, obj]: kind "json" (obj parses), "empty" (opened   *)
(* for writing and truncated, nothing flushed yet) or "garbled" (a shorter *)
(* object written over a longer one: json.load fails).                     *)
(***************************************************************************)
EXTENDS Integers, Sequences, FiniteSets, TLC

\* Largest page count of an uploaded PDF.
MaxPages == 3

\* Most cleanup_files requests in flight for one job at the same time.
MaxCleanups == 2

\* The ids uuid4 may return, and Python's None.
TaskIds == {"t1", "t2"}
None == "None"

-----------------------------------------------------------------------------
(* dict and file helpers *)

EmptyDict == [k \in {} |-> None]

\* d[k] = v
Put(d, k, v) == [x \in (DOMAIN d) \cup {k} |-> IF x = k THEN v ELSE d[x]]

\* del d[k]
Del(d, k) == [x \in (DOMAIN d) \ {k} |-> d[x]]

\* a.update(b)
Merge(a, b) == [x \in (DOMAIN a) \cup (DOMAIN b) |-> IF x \in DOMAIN b THEN b[x] ELSE a[x]]

\* d.get(k)
Get(d, k) == IF k \in DOMAIN d THEN d[k] ELSE None

JsonFile(obj) == [kind |-> "json", obj |-> obj]
EmptyFile == [kind |-> "empty", obj |-> EmptyDict]
GarbledFile == [kind |-> "garbled", obj |-> EmptyDict]

-----------------------------------------------------------------------------
(* conversion_worker.py: the objects the worker writes *)

Phases ==
  << [status |-> "converting", progress |-> 0, message |-> "Starting conversion...",
      step |-> "initialization", error |-> None],
     [progress |-> 5, message |-> "File uploaded successfully", step |-> "upload_complete"],
     [progress |-> 10, message |-> "Initializing PDF converter...", step |-> "initializing"],
     [progress |-> 20, message |-> "Opening PDF document...", step |-> "opening_document"],
     [progress |-> 30, message |-> "Analyzing document structure...", step |-> "analyzing_structure"],
     [progress |-> 40, message |-> "Preparing conversion parameters...", step |-> "preparing_conversion"],
     [progress |-> 55, message |-> "Converting PDF elements to Word format...", step |-> "converting_elements"],
     [progress |-> 60, message |-> "Preserving original formatting...", step |-> "preserving_formatting"],
     [progress |-> 65, message |-> "Processing document content...", step |-> "processing_content"] >>

\* 50 + int((page / total) * 30)
PageProgress(page, total) == 50 + ((page * 30) \div total)

\* 55 + int((page / total) * 25)
FallbackProgress(page, total) == 55 + ((page * 25) \div total)

\* The page messages, in English; calculate_eta's text depends on the wall
\* clock and is one fixed string here.
PageMessage(page, total) == "Processing page " \o ToString(page) \o "/" \o ToString(total) \o "..."
FallbackPageMessage(page, total) ==
  "Processing page " \o ToString(page) \o "/" \o ToString(total) \o " (fallback mode)..."

PageData(page, total) ==
  [progress |-> PageProgress(page, total), message |-> PageMessage(page, total),
   step |-> "processing_pages",
   current_page |-> page, total_pages |-> total, eta |-> "eta"]

FallbackPageData(page, total) ==
  [progress |-> FallbackProgress(page, total), message |-> FallbackPageMessage(page, total),
   step |-> "processing_pages_fallback",
   current_page |-> page, total_pages |-> total, eta |-> "eta"]

FinalizingData ==
  [progress |-> 90, message |-> "Finalizing output document...", step |-> "finalizing"]

CompletedData ==
  [status |-> "completed", progress |-> 100, message |-> "Conversion completed successfully!",
   step |-> "completed", output_file |-> "docx"]

\* str(e) of the exceptions that reach the worker's outer handler
CancelledReason == "PDF conversion failed: Task was cancelled by user"
ConverterReason == "PDF conversion failed: converter error"
AttributeReason == "PDF conversion failed: attribute error"
CompatReason == "PDF conversion failed due to compatibility issue: get_area"
NoOutputReason == "Output file was not created"

ErrorData(reason) ==
  [status |-> "error", message |-> "Conversion failed: " \o reason, step |-> "error",
   error |-> reason]

-----------------------------------------------------------------------------
(* app.py: the objects the supervisor writes *)

InitialStatus ==
  [status |-> "converting", progress |-> 0, message |-> "Starting conversion...",
   step |-> "initialization", error |-> None]

CancelNote ==
  [status |-> "cancelled", message |-> "Task cancelled by user", step |-> "cancelled"]

ExitMessage(rc) == "Process exited with code " \o ToString(rc)

ExitError(rc) ==
  [status |-> "error", message |-> ExitMessage(rc), step |-> "error", error |-> ExitMessage(rc)]

\* str(e) of the KeyError is the quoted task id.
MonitoringError ==
  [status |-> "error", message |-> "Monitoring error: 'task_id'", step |-> "error",
   error |-> "'task_id'"]

-----------------------------------------------------------------------------
VARIABLES
  conversion_status,    \* dict: task id -> JobRecord (a dict)
  frontend_heartbeat,   \* the task ids with a heartbeat entry
  conversion_processes, \* the task ids with a process entry
  status_files,         \* dict: task id -> content of uploads/<id>_status.json
  pdf_files,            \* the task ids whose uploads/<id>_<name> exists
  output_files,         \* the task ids whose outputs/<id>_<name>.docx exists
  free_ids,             \* the ids uuid4 has not returned yet
  proc,                 \* task id -> the worker process: state, returncode, last signal
  worker,               \* task id -> the worker's position and locals
  monitor,              \* task id -> position of the monitor thread
  canceller,            \* task id -> position of the cancel_task request in flight
  cleaner,              \* task id -> slot -> the cleanup_files request in flight
  user_cancelled,       \* history: ids whose cancel_task was accepted while converting
  served                \* history: ids for which download_file sent the file

vars == << conversion_status, frontend_heartbeat, conversion_processes, status_files,
           pdf_files, output_files, free_ids, proc, worker, monitor, canceller, cleaner,
           user_cancelled, served >>

supervisor_vars == << conversion_status, frontend_heartbeat, conversion_processes >>
disk_vars == << status_files, pdf_files, output_files >>
thread_vars == << monitor, canceller, cleaner >>
history_vars == << user_cancelled, served >>

NoProcess == [state |-> "none", rc |-> 0, sig |-> "none"]
NoWorker ==
  [pc |-> "none", ph |-> "rd", i |-> 0, page |-> 0, total |-> 0, cb |-> FALSE, fb |-> FALSE,
   reason |-> None, buf |-> EmptyDict, orphan |-> FALSE]
\* entry: the record's status when the request in flight passed its 404 check
IdleCanceller == [pc |-> "idle", orphan |-> FALSE, entry |-> None]
\* listed: the names os.listdir returned that are still to be removed;
\* result: the answer of the slot's last request
Slots == 1..MaxCleanups
\* The ids a cleanup request can name: the id of a job, or a leading part of one.
CleanupIds == TaskIds \cup {"t"}
IdleCleaner == [pc |-> "idle", listed |-> {}, result |-> "none"]
CleanerIdle(t) == \A r \in Slots : cleaner[t][r].pc = "idle"

Alive(t) == proc[t].state = "running"

\* json.load(open(status_file)) succeeds
Readable(t) == t \in DOMAIN status_files /\ status_files[t].kind = "json"

TerminalStatus == {"completed", "error", "cancelled"}

\* The state after import, with the ids uuid4 is still to return.
InitWith(ids) ==
  /\ conversion_status = EmptyDict
  /\ frontend_heartbeat = {}
  /\ conversion_processes = {}
  /\ status_files = EmptyDict
  /\ pdf_files = {}
  /\ output_files = {}
  /\ free_ids = ids
  /\ proc = [t \in TaskIds |-> NoProcess]
  /\ worker = [t \in TaskIds |-> NoWorker]
  /\ monitor = [t \in TaskIds |-> "none"]
  /\ canceller = [t \in TaskIds |-> IdleCanceller]
  /\ cleaner = [x \in CleanupIds |-> [r \in Slots |-> IdleCleaner]]
  /\ user_cancelled = {}
  /\ served = {}

Init == InitWith({"t1"})

-----------------------------------------------------------------------------
(* app.py convert_pdf *)

\* The upload is saved, the status file is seeded, the worker is started, its
\* handle is stored and the monitor thread is started.
Submit(t) ==
  /\ t \in free_ids
  /\ free_ids' = free_ids \ {t}
  /\ pdf_files' = pdf_files \cup {t}
  /\ status_files' = Put(status_files, t, JsonFile(InitialStatus))
  /\ proc' = [proc EXCEPT ![t] = [state |-> "running", rc |-> 0, sig |-> "none"]]
  /\ worker' = [worker EXCEPT ![t] = [NoWorker EXCEPT !.pc = "phase", !.i = 1]]
  /\ conversion_processes' = conversion_processes \cup {t}
  /\ monitor' = [monitor EXCEPT ![t] = "start"]
  /\ UNCHANGED << conversion_status, frontend_heartbeat, output_files, canceller, cleaner,
                  history_vars >>

\* Mutant of SubmitLaunchError: the monitor thread is started all the same.
SubmitLaunchError_StartsMonitor(t) ==
  /\ t \in free_ids
  /\ free_ids' = free_ids \ {t}
  /\ pdf_files' = pdf_files \cup {t}
  /\ status_files' = Put(status_files, t, JsonFile(InitialStatus))
  /\ monitor' = [monitor EXCEPT ![t] = "start"]
  /\ UNCHANGED << supervisor_vars, output_files, proc, worker, canceller, cleaner,
                  history_vars >>

\* subprocess.Popen raises: the upload and the seeded status file stay on disk,
\* nothing else is created and the request answers 500.
SubmitLaunchError(t) ==
  /\ t \in free_ids
  /\ free_ids' = free_ids \ {t}
  /\ pdf_files' = pdf_files \cup {t}
  /\ status_files' = Put(status_files, t, JsonFile(InitialStatus))
  /\ UNCHANGED << supervisor_vars, output_files, proc, worker, thread_vars, history_vars >>

-----------------------------------------------------------------------------
(* conversion_worker.py convert_pdf_to_docx, update_status, read_status *)

\* The worker runs its script while its process is alive and no signal has
\* been delivered to it (it installs no handler: a signal stops it).
Runs(t) == Alive(t) /\ proc[t].sig = "none"

UpdatePcs == {"phase", "page_update", "finalizing", "completed", "error"}

\* The argument of the update_status call at the worker's position.
UpdateData(w) ==
  CASE w.pc = "phase" -> Phases[w.i]
    [] w.pc = "page_update" ->
         IF w.fb THEN FallbackPageData(w.page, w.total) ELSE PageData(w.page, w.total)
    [] w.pc = "finalizing" -> FinalizingData
    [] w.pc = "completed" -> CompletedData
    [] OTHER -> ErrorData(w.reason)

\* The worker's position after the update_status call returned.
AfterUpdate(w) ==
  CASE w.pc = "phase" ->
         IF w.i < Len(Phases) THEN [w EXCEPT !.i = w.i + 1] ELSE [w EXCEPT !.pc = "open_cv", !.i = 0]
    [] w.pc = "page_update" ->
         IF w.page < w.total THEN [w EXCEPT !.pc = "callback", !.page = w.page + 1]
         ELSE [w EXCEPT !.pc = "save"]
    [] w.pc = "finalizing" -> [w EXCEPT !.pc = "exists"]
    [] w.pc = "completed" -> [w EXCEPT !.pc = "exit"]
    [] OTHER -> [w EXCEPT !.pc = "remove_files"]

\* read_status(status_file) or {}
ReadStatus(t) == IF Readable(t) THEN status_files[t].obj ELSE EmptyDict

\* update_status, first half: read the file, merge the data into what was read,
\* open the file for writing (which creates or truncates it).
WorkerRead(t) ==
  /\ Runs(t)
  /\ worker[t].pc \in UpdatePcs /\ worker[t].ph = "rd"
  /\ worker' = [worker EXCEPT ![t] = [@ EXCEPT !.ph = "wr", !.orphan = FALSE,
                                        !.buf = Merge(ReadStatus(t), UpdateData(worker[t]))]]
  /\ status_files' = Put(status_files, t, EmptyFile)
  /\ UNCHANGED << supervisor_vars, pdf_files, output_files, free_ids, proc, thread_vars,
                  history_vars >>

\* update_status, second half: json.dump and close. Every object the worker
\* writes is longer than the supervisor's 81-byte cancellation note, so it
\* replaces whatever the file holds; a file unlinked since the open is gone.
WorkerFlush(t) ==
  /\ Runs(t)
  /\ worker[t].pc \in UpdatePcs /\ worker[t].ph = "wr"
  /\ status_files' = IF worker[t].orphan THEN status_files
                     ELSE Put(status_files, t, JsonFile(worker[t].buf))
  /\ worker' = [worker EXCEPT ![t] = [AfterUpdate(@) EXCEPT !.ph = "rd", !.orphan = FALSE,
                                                            !.buf = EmptyDict]]
  /\ UNCHANGED << supervisor_vars, pdf_files, output_files, free_ids, proc, thread_vars,
                  history_vars >>

\* cv = Converter(pdf_path); hasattr(cv, 'set_progress_callback'). Opening a
\* PDF that is no longer on disk raises.
WorkerOpen(t) ==
  /\ Runs(t)
  /\ worker[t].pc = "open_cv"
  /\ \/ /\ t \in pdf_files
        /\ \E total \in 1..MaxPages, cb \in BOOLEAN :
             worker' = [worker EXCEPT ![t] = [@ EXCEPT !.pc = IF cb THEN "callback" ELSE "convert",
                                                       !.page = 1, !.total = total, !.cb = cb]]
     \/ worker' = [worker EXCEPT ![t] = [@ EXCEPT !.pc = "error", !.reason = ConverterReason]]
  /\ UNCHANGED << supervisor_vars, disk_vars, free_ids, proc, thread_vars, history_vars >>

\* progress_callback / fallback_progress_callback up to the cancellation check.
\* The exception raised there is re-raised by the handler around the conversion.
WorkerCallback(t) ==
  /\ Runs(t)
  /\ worker[t].pc = "callback"
  /\ worker' = [worker EXCEPT ![t] =
       IF Get(ReadStatus(t), "status") = "cancelled"
       THEN [@ EXCEPT !.pc = "error",
                      !.reason = IF worker[t].fb THEN CompatReason ELSE CancelledReason]
       ELSE [@ EXCEPT !.pc = "page_update"]]
  /\ UNCHANGED << supervisor_vars, disk_vars, free_ids, proc, thread_vars, history_vars >>

\* cv.convert on a converter without a progress callback.
WorkerConvert(t) ==
  /\ Runs(t)
  /\ worker[t].pc = "convert"
  /\ worker' = [worker EXCEPT ![t] = [@ EXCEPT !.pc = "save"]]
  /\ UNCHANGED << supervisor_vars, disk_vars, free_ids, proc, thread_vars, history_vars >>

\* cv.convert raises. An AttributeError naming get_area starts the fallback
\* conversion once; every failure of the fallback is reported as the
\* compatibility issue.
ConvertFailure(w, kind) ==
  IF w.fb THEN [w EXCEPT !.pc = "error", !.reason = CompatReason]
  ELSE CASE kind = "get_area" ->
              [w EXCEPT !.fb = TRUE, !.page = 1, !.pc = IF w.cb THEN "callback" ELSE "convert"]
         [] kind = "attribute" -> [w EXCEPT !.pc = "error", !.reason = AttributeReason]
         [] OTHER -> [w EXCEPT !.pc = "error", !.reason = ConverterReason]

WorkerConvertFails(t) ==
  /\ Runs(t)
  /\ worker[t].pc \in {"callback", "convert"}
  /\ \E kind \in {"get_area", "attribute", "other"} :
       worker' = [worker EXCEPT ![t] = ConvertFailure(@, kind)]
  /\ UNCHANGED << supervisor_vars, disk_vars, free_ids, proc, thread_vars, history_vars >>

\* The end of cv.convert: the document is saved to output_path.
WorkerSave(t) ==
  /\ Runs(t)
  /\ worker[t].pc = "save"
  /\ output_files' = output_files \cup {t}
  /\ worker' = [worker EXCEPT ![t] = [@ EXCEPT !.pc = "finalizing"]]
  /\ UNCHANGED << supervisor_vars, status_files, pdf_files, free_ids, proc, thread_vars,
                  history_vars >>

\* if os.path.exists(output_path): ... else: raise
WorkerExists(t) ==
  /\ Runs(t)
  /\ worker[t].pc = "exists"
  /\ worker' = [worker EXCEPT ![t] =
       IF t \in output_files THEN [@ EXCEPT !.pc = "completed"]
       ELSE [@ EXCEPT !.pc = "error", !.reason = NoOutputReason]]
  /\ UNCHANGED << supervisor_vars, disk_vars, free_ids, proc, thread_vars, history_vars >>

\* The outer handler after its update_status, inside its try block:
\* if os.path.exists(pdf_path)
WorkerRemoveFiles(t) ==
  /\ Runs(t)
  /\ worker[t].pc = "remove_files"
  /\ worker' = [worker EXCEPT ![t] =
       [@ EXCEPT !.pc = IF t \in pdf_files THEN "remove_pdf" ELSE "remove_output"]]
  /\ UNCHANGED << supervisor_vars, disk_vars, free_ids, proc, thread_vars, history_vars >>

\* os.remove(pdf_path). When the PDF has gone since the check the call raises,
\* the bare except swallows it and the rest of the try block is skipped.
WorkerRemovePdf(t) ==
  /\ Runs(t)
  /\ worker[t].pc = "remove_pdf"
  /\ pdf_files' = pdf_files \ {t}
  /\ worker' = [worker EXCEPT ![t] =
       [@ EXCEPT !.pc = IF t \in pdf_files THEN "remove_output" ELSE "exit"]]
  /\ UNCHANGED << supervisor_vars, status_files, output_files, free_ids, proc, thread_vars,
                  history_vars >>

\* if os.path.exists(output_path): os.remove(output_path)
WorkerRemoveOutput(t) ==
  /\ Runs(t)
  /\ worker[t].pc = "remove_output"
  /\ output_files' = output_files \ {t}
  /\ worker' = [worker EXCEPT ![t] = [@ EXCEPT !.pc = "exit"]]
  /\ UNCHANGED << supervisor_vars, status_files, pdf_files, free_ids, proc, thread_vars,
                  history_vars >>

\* convert_pdf_to_docx returns and the interpreter exits with code 0.
WorkerExit(t) ==
  /\ Runs(t)
  /\ worker[t].pc = "exit"
  /\ proc' = [proc EXCEPT ![t] = [@ EXCEPT !.state = "exited", !.rc = 0]]
  /\ worker' = [worker EXCEPT ![t] = NoWorker]
  /\ UNCHANGED << supervisor_vars, disk_vars, free_ids, thread_vars, history_vars >>

\* The process dies on its own (a failed import, a crash of a native library,
\* the OOM killer): exit code 1, wherever the script was.
WorkerCrash(t) ==
  /\ Runs(t)
  /\ proc' = [proc EXCEPT ![t] = [@ EXCEPT !.state = "exited", !.rc = 1]]
  /\ worker' = [worker EXCEPT ![t] = NoWorker]
  /\ UNCHANGED << supervisor_vars, disk_vars, free_ids, thread_vars, history_vars >>

\* The signal sent by cancel_task ends the process: returncode -15 or -9.
ProcessDies(t) ==
  /\ Alive(t)
  /\ proc[t].sig # "none"
  /\ proc' = [proc EXCEPT ![t] = [@ EXCEPT !.state = "exited",
                                           !.rc = IF proc[t].sig = "term" THEN -15 ELSE -9]]
  /\ worker' = [worker EXCEPT ![t] = NoWorker]
  /\ UNCHANGED << supervisor_vars, disk_vars, free_ids, thread_vars, history_vars >>

-----------------------------------------------------------------------------
(* app.py monitor_conversion_process *)

\* A file that is unlinked while a writer holds it open: the writer's pending
\* flush goes to the unlinked file and never shows under the path.
OrphanWorker(w) == IF w.ph = "wr" THEN [w EXCEPT !.orphan = TRUE] ELSE w
OrphanCanceller(c) == IF c.pc = "write_flush" THEN [c EXCEPT !.orphan = TRUE] ELSE c

\* process_info = conversion_processes.get(task_id); if not process_info: return
MonitorStart(t) ==
  /\ monitor[t] = "start"
  /\ monitor' = [monitor EXCEPT ![t] = IF t \in conversion_processes THEN "loop" ELSE "done"]
  /\ UNCHANGED << supervisor_vars, disk_vars, free_ids, proc, worker, canceller, cleaner,
                  history_vars >>

\* Mutant of Mirrored: a read that fails marks the job as failed.
Mirrored_ErrorOnFailedRead(t) ==
  IF Readable(t) THEN Put(conversion_status, t, status_files[t].obj)
  ELSE Put(conversion_status, t,
           [status |-> "error", message |-> "Status file unreadable", step |-> "error"])

\* The registry after the monitor's read of the status file while the process
\* runs: the parsed object replaces the record; a failed read changes nothing.
Mirrored(t) ==
  IF Readable(t) THEN Put(conversion_status, t, status_files[t].obj) ELSE conversion_status

\* Mutant of MonitorPoll: a job without a heartbeat entry is terminated.
MonitorPoll_TerminatesSilentJob(t) ==
  /\ monitor[t] = "loop"
  /\ Alive(t)
  /\ conversion_status' = Mirrored(t)
  /\ proc' = IF t \in frontend_heartbeat THEN proc
             ELSE [proc EXCEPT ![t] = [@ EXCEPT !.sig = IF @ = "kill" THEN "kill" ELSE "term"]]
  /\ UNCHANGED << frontend_heartbeat, conversion_processes, disk_vars, free_ids, worker,
                  thread_vars, history_vars >>

\* One turn of "while process.poll() is None".
MonitorPoll(t) ==
  /\ monitor[t] = "loop"
  /\ Alive(t)
  /\ conversion_status' = Mirrored(t)
  /\ UNCHANGED << frontend_heartbeat, conversion_processes, disk_vars, free_ids, proc, worker,
                  thread_vars, history_vars >>

\* The registry after the final read, made once the process has exited.
FinalStatus(t) ==
  IF Readable(t) THEN Put(conversion_status, t, status_files[t].obj)
  ELSE IF proc[t].rc # 0 THEN Put(conversion_status, t, ExitError(proc[t].rc))
  ELSE conversion_status

MonitorFinal(t) ==
  /\ monitor[t] = "loop"
  /\ ~Alive(t)
  /\ conversion_status' = FinalStatus(t)
  /\ monitor' = [monitor EXCEPT ![t] = "check"]
  /\ UNCHANGED << frontend_heartbeat, conversion_processes, disk_vars, free_ids, proc, worker,
                  canceller, cleaner, history_vars >>

\* if task_id in conversion_processes:
MonitorCheck(t) ==
  /\ monitor[t] = "check"
  /\ monitor' = [monitor EXCEPT ![t] = IF t \in conversion_processes THEN "del" ELSE "remove"]
  /\ UNCHANGED << supervisor_vars, disk_vars, free_ids, proc, worker, canceller, cleaner,
                  history_vars >>

\* del conversion_processes[task_id]; a KeyError is caught by the outer handler,
\* which overwrites the record and skips the removal of the status file.
MonitorDel(t) ==
  /\ monitor[t] = "del"
  /\ IF t \in conversion_processes
     THEN /\ conversion_processes' = conversion_processes \ {t}
          /\ monitor' = [monitor EXCEPT ![t] = "remove"]
          /\ UNCHANGED conversion_status
     ELSE /\ conversion_status' = Put(conversion_status, t, MonitoringError)
          /\ monitor' = [monitor EXCEPT ![t] = "done"]
          /\ UNCHANGED conversion_processes
  /\ UNCHANGED << frontend_heartbeat, disk_vars, free_ids, proc, worker, canceller, cleaner,
                  history_vars >>

\* os.remove(status_file), errors ignored
MonitorRemove(t) ==
  /\ monitor[t] = "remove"
  /\ status_files' = Del(status_files, t)
  /\ worker' = [worker EXCEPT ![t] = OrphanWorker(@)]
  /\ canceller' = [canceller EXCEPT ![t] = OrphanCanceller(@)]
  /\ monitor' = [monitor EXCEPT ![t] = "done"]
  /\ UNCHANGED << supervisor_vars, pdf_files, output_files, free_ids, proc, cleaner,
                  history_vars >>

-----------------------------------------------------------------------------
(* app.py cancel_task *)

RecordStatus(t) == Get(conversion_status[t], "status")

\* conversion_status[task_id][key] = value
SetField(t, key, value) == Put(conversion_status, t, Put(conversion_status[t], key, value))

\* if task_id not in conversion_status: 404
CancelRequest(t) ==
  /\ t \notin free_ids
  /\ canceller[t].pc = "idle"
  /\ IF t \in DOMAIN conversion_status
     THEN /\ canceller' = [canceller EXCEPT ![t] = [@ EXCEPT !.pc = "set_status",
                                                          !.entry = RecordStatus(t)]]
          /\ user_cancelled' = IF RecordStatus(t) = "converting"
                               THEN user_cancelled \cup {t} ELSE user_cancelled
     ELSE UNCHANGED << canceller, user_cancelled >>
  /\ UNCHANGED << supervisor_vars, disk_vars, free_ids, proc, worker, monitor, cleaner, served >>

\* One of the three assignments to the record; the record may be gone by now
\* (KeyError: the request answers 500).
CancelAssign(t, pc, key, value, next) ==
  /\ canceller[t].pc = pc
  /\ IF t \in DOMAIN conversion_status
     THEN /\ conversion_status' = SetField(t, key, value)
          /\ canceller' = [canceller EXCEPT ![t] = [@ EXCEPT !.pc = next]]
     ELSE /\ UNCHANGED conversion_status
          /\ canceller' = [canceller EXCEPT ![t] = IdleCanceller]
  /\ UNCHANGED << frontend_heartbeat, conversion_processes, disk_vars, free_ids, proc, worker,
                  monitor, cleaner, history_vars >>

CancelSetStatus(t) == CancelAssign(t, "set_status", "status", "cancelled", "set_message")
CancelSetMessage(t) == CancelAssign(t, "set_message", "message", "Task cancelled by user", "set_step")
CancelSetStep(t) == CancelAssign(t, "set_step", "step", "cancelled", "check_process")

\* The status in cancel_task's answer
CancelResponse == "cancelled"

\* Mutant of CancelCheckProcess: every heartbeat entry is dropped.
CancelCheckProcess_ClearsHeartbeats(t) ==
  /\ canceller[t].pc = "check_process"
  /\ frontend_heartbeat' = {}
  /\ canceller' = [canceller EXCEPT ![t] =
       IF t \in conversion_processes THEN [@ EXCEPT !.pc = "get_process"] ELSE IdleCanceller]
  /\ UNCHANGED << conversion_status, conversion_processes, disk_vars, free_ids, proc, worker,
                  monitor, cleaner, history_vars >>

\* del frontend_heartbeat[task_id]; if task_id in conversion_processes:
CancelCheckProcess(t) ==
  /\ canceller[t].pc = "check_process"
  /\ frontend_heartbeat' = frontend_heartbeat \ {t}
  /\ canceller' = [canceller EXCEPT ![t] =
       IF t \in conversion_processes THEN [@ EXCEPT !.pc = "get_process"] ELSE IdleCanceller]
  /\ UNCHANGED << conversion_status, conversion_processes, disk_vars, free_ids, proc, worker,
                  monitor, cleaner, history_vars >>

\* process_info = conversion_processes[task_id] (KeyError: 500)
CancelGetProcess(t) ==
  /\ canceller[t].pc = "get_process"
  /\ canceller' = [canceller EXCEPT ![t] =
       IF t \in conversion_processes THEN [@ EXCEPT !.pc = "write_open"] ELSE IdleCanceller]
  /\ UNCHANGED << supervisor_vars, disk_vars, free_ids, proc, worker, monitor, cleaner,
                  history_vars >>

\* open(status_file, 'w')
CancelOpen(t) ==
  /\ canceller[t].pc = "write_open"
  /\ status_files' = Put(status_files, t, EmptyFile)
  /\ canceller' = [canceller EXCEPT ![t] = [@ EXCEPT !.pc = "write_flush", !.orphan = FALSE]]
  /\ UNCHANGED << supervisor_vars, pdf_files, output_files, free_ids, proc, worker, monitor,
                  cleaner, history_vars >>

\* The file after the 81 bytes of the cancellation note are written at its
\* start: the note, unless a longer object was written since the open.
NoteWritten(file) ==
  IF file.kind = "empty" \/ file = JsonFile(CancelNote) THEN JsonFile(CancelNote)
  ELSE GarbledFile

\* json.dump(...) and close
CancelFlush(t) ==
  /\ canceller[t].pc = "write_flush"
  /\ status_files' = IF canceller[t].orphan THEN status_files
                     ELSE Put(status_files, t, NoteWritten(status_files[t]))
  /\ canceller' = [canceller EXCEPT ![t] = [@ EXCEPT !.pc = "grace1", !.orphan = FALSE]]
  /\ UNCHANGED << supervisor_vars, pdf_files, output_files, free_ids, proc, worker, monitor,
                  cleaner, history_vars >>

\* os.kill(pid, sig) on a process that has not exited
Signal(p, sig) == [p EXCEPT !.sig = IF @ = "kill" THEN "kill" ELSE sig]

\* Mutant of CancelGrace1: the process is killed after the first grace period.
CancelGrace1_KillsAtOnce(t) ==
  /\ canceller[t].pc = "grace1"
  /\ proc' = IF Alive(t) THEN [proc EXCEPT ![t] = Signal(@, "kill")] ELSE proc
  /\ canceller' = [canceller EXCEPT ![t] = [@ EXCEPT !.pc = "check_del"]]
  /\ UNCHANGED << supervisor_vars, disk_vars, free_ids, worker, monitor, cleaner, history_vars >>

\* time.sleep(1); if process.poll() is None: process.terminate()
CancelGrace1(t) ==
  /\ canceller[t].pc = "grace1"
  /\ IF Alive(t)
     THEN /\ proc' = [proc EXCEPT ![t] = Signal(@, "term")]
          /\ canceller' = [canceller EXCEPT ![t] = [@ EXCEPT !.pc = "grace2"]]
     ELSE /\ UNCHANGED proc
          /\ canceller' = [canceller EXCEPT ![t] = [@ EXCEPT !.pc = "check_del"]]
  /\ UNCHANGED << supervisor_vars, disk_vars, free_ids, worker, monitor, cleaner, history_vars >>

\* Mutant of CancelGrace2: the second grace period ends without the kill.
CancelGrace2_NoKill(t) ==
  /\ canceller[t].pc = "grace2"
  /\ canceller' = [canceller EXCEPT ![t] = [@ EXCEPT !.pc = "check_del"]]
  /\ UNCHANGED << supervisor_vars, disk_vars, free_ids, proc, worker, monitor, cleaner,
                  history_vars >>

\* time.sleep(2); if process.poll() is None: process.kill()
CancelGrace2(t) ==
  /\ canceller[t].pc = "grace2"
  /\ proc' = IF Alive(t) THEN [proc EXCEPT ![t] = Signal(@, "kill")] ELSE proc
  /\ canceller' = [canceller EXCEPT ![t] = [@ EXCEPT !.pc = "check_del"]]
  /\ UNCHANGED << supervisor_vars, disk_vars, free_ids, worker, monitor, cleaner, history_vars >>

\* if task_id in conversion_processes:
CancelCheckDel(t) ==
  /\ canceller[t].pc = "check_del"
  /\ canceller' = [canceller EXCEPT ![t] =
       IF t \in conversion_processes THEN [@ EXCEPT !.pc = "del"] ELSE IdleCanceller]
  /\ UNCHANGED << supervisor_vars, disk_vars, free_ids, proc, worker, monitor, cleaner,
                  history_vars >>

\* del conversion_processes[task_id]; when the entry is gone by now the
\* KeyError ends the request with 500 and changes nothing else.
CancelDel(t) ==
  /\ canceller[t].pc = "del"
  /\ conversion_processes' = conversion_processes \ {t}
  /\ canceller' = [canceller EXCEPT ![t] = IdleCanceller]
  /\ UNCHANGED << conversion_status, frontend_heartbeat, disk_vars, free_ids, proc, worker,
                  monitor, cleaner, history_vars >>

-----------------------------------------------------------------------------
(* app.py cleanup_files, get_status, download_file, heartbeat *)

\* A request ends: the answer is kept until the slot serves its next request.
CleanupAnswer(c, code) == [pc |-> "idle", listed |-> {}, result |-> code]

\* filename.startswith(task_id)
StartsWith(s, p) == Len(p) <= Len(s) /\ SubSeq(s, 1, Len(p)) = p

\* The names convert_pdf gives the files of job u (the upload is doc.pdf).
FileName(u, kind) ==
  u \o (CASE kind = "pdf" -> "_doc.pdf"
          [] kind = "status" -> "_status.json"
          [] OTHER -> "_doc.docx")

\* The files in the uploads and in the outputs directory, as << job, kind >>.
UploadEntries ==
  {<< u, "pdf" >> : u \in pdf_files} \cup {<< u, "status" >> : u \in DOMAIN status_files}
OutputEntries == {<< u, "docx" >> : u \in output_files}

\* The names os.listdir returns that start with the id.
UploadNames(x) == {e \in UploadEntries : StartsWith(FileName(e[1], e[2]), x)}
OutputNames(x) == {e \in OutputEntries : StartsWith(FileName(e[1], e[2]), x)}

\* os.listdir(UPLOAD_FOLDER)
CleanupUploads(x, r) ==
  /\ x \notin free_ids
  /\ cleaner[x][r].pc = "idle"
  /\ cleaner' = [cleaner EXCEPT ![x][r] = [pc |-> "uploads", listed |-> UploadNames(x),
                                           result |-> "none"]]
  /\ UNCHANGED << supervisor_vars, disk_vars, free_ids, proc, worker, monitor, canceller,
                  history_vars >>

\* os.remove of one listed upload; a name that is gone by now raises
\* FileNotFoundError and the request answers 500.
CleanupRemoveUpload(x, r) ==
  /\ cleaner[x][r].pc = "uploads"
  /\ \E f \in cleaner[x][r].listed :
       IF f \in UploadEntries
       THEN /\ cleaner' = [cleaner EXCEPT ![x][r].listed = @ \ {f}]
            /\ pdf_files' = IF f[2] = "pdf" THEN pdf_files \ {f[1]} ELSE pdf_files
            /\ status_files' = IF f[2] = "status" THEN Del(status_files, f[1]) ELSE status_files
            /\ worker' = IF f[2] = "status" THEN [worker EXCEPT ![f[1]] = OrphanWorker(@)]
                         ELSE worker
            /\ canceller' = IF f[2] = "status"
                            THEN [canceller EXCEPT ![f[1]] = OrphanCanceller(@)]
                            ELSE canceller
       ELSE /\ cleaner' = [cleaner EXCEPT ![x][r] = CleanupAnswer(@, "500")]
            /\ UNCHANGED << pdf_files, status_files, worker, canceller >>
  /\ UNCHANGED << supervisor_vars, output_files, free_ids, proc, monitor, history_vars >>

\* os.listdir(OUTPUT_FOLDER)
CleanupOutputs(x, r) ==
  /\ cleaner[x][r].pc = "uploads"
  /\ cleaner[x][r].listed = {}
  /\ cleaner' = [cleaner EXCEPT ![x][r] = [@ EXCEPT !.pc = "outputs", !.listed = OutputNames(x)]]
  /\ UNCHANGED << supervisor_vars, disk_vars, free_ids, proc, worker, monitor, canceller,
                  history_vars >>

\* os.remove of one listed output
CleanupRemoveOutput(x, r) ==
  /\ cleaner[x][r].pc = "outputs"
  /\ \E f \in cleaner[x][r].listed :
       IF f \in OutputEntries
       THEN /\ output_files' = output_files \ {f[1]}
            /\ cleaner' = [cleaner EXCEPT ![x][r].listed = @ \ {f}]
       ELSE /\ cleaner' = [cleaner EXCEPT ![x][r] = CleanupAnswer(@, "500")]
            /\ UNCHANGED output_files
  /\ UNCHANGED << supervisor_vars, status_files, pdf_files, free_ids, proc, worker, monitor,
                  canceller, history_vars >>

\* if task_id in conversion_status:
CleanupCheckRecord(t, r) ==
  /\ cleaner[t][r].pc = "outputs"
  /\ cleaner[t][r].listed = {}
  /\ cleaner' = [cleaner EXCEPT ![t][r] =
       IF t \in DOMAIN conversion_status THEN [@ EXCEPT !.pc = "del"]
       ELSE CleanupAnswer(@, "200")]
  /\ UNCHANGED << supervisor_vars, disk_vars, free_ids, proc, worker, monitor, canceller,
                  history_vars >>

\* del conversion_status[task_id]; a KeyError answers 500.
CleanupRecord(t, r) ==
  /\ cleaner[t][r].pc = "del"
  /\ IF t \in DOMAIN conversion_status
     THEN /\ conversion_status' = Del(conversion_status, t)
          /\ cleaner' = [cleaner EXCEPT ![t][r] = CleanupAnswer(@, "200")]
     ELSE /\ UNCHANGED conversion_status
          /\ cleaner' = [cleaner EXCEPT ![t][r] = CleanupAnswer(@, "500")]
  /\ UNCHANGED << frontend_heartbeat, conversion_processes, disk_vars, free_ids, proc, worker,
                  monitor, canceller, history_vars >>

\* The registry after get_status's read of the status file: the parsed object
\* is merged into the record; a failed read changes nothing.
StatusMerged(t) ==
  IF Readable(t)
  THEN Put(conversion_status, t, Merge(conversion_status[t], status_files[t].obj))
  ELSE conversion_status

\* get_status: while the job has a process entry, a readable status file is
\* merged into the record before it is returned.
GetStatus(t) ==
  /\ t \notin free_ids
  /\ t \in DOMAIN conversion_status
  /\ t \in conversion_processes
  /\ Readable(t)
  /\ conversion_status' = StatusMerged(t)
  /\ UNCHANGED << frontend_heartbeat, conversion_processes, disk_vars, free_ids, proc, worker,
                  thread_vars, history_vars >>

\* Mutant of DownloadResponse: the status of the record is not looked at.
DownloadResponse_NoStatusCheck(t) ==
  IF t \notin DOMAIN conversion_status THEN "404 Task not found"
  ELSE IF "output_file" \notin DOMAIN conversion_status[t] THEN "404 Output file not found"
  ELSE IF t \in output_files THEN "file"
  ELSE "404 File not found on server"

\* get_status's answer code
StatusResponse(t) == IF t \notin DOMAIN conversion_status THEN "404" ELSE "200"

\* download_file's answer
DownloadResponse(t) ==
  IF t \notin DOMAIN conversion_status THEN "404 Task not found"
  ELSE IF "status" \notin DOMAIN conversion_status[t] THEN "500 KeyError"
  ELSE IF conversion_status[t].status # "completed" THEN "400 File not ready for download"
  ELSE IF "output_file" \notin DOMAIN conversion_status[t] THEN "404 Output file not found"
  ELSE IF t \in output_files THEN "file"
  ELSE "404 File not found on server"

Download(t) ==
  /\ t \notin free_ids
  /\ DownloadResponse(t) = "file"
  /\ served' = served \cup {t}
  /\ UNCHANGED << supervisor_vars, disk_vars, free_ids, proc, worker, thread_vars,
                  user_cancelled >>

\* frontend_heartbeat[task_id] = time.time()
Heartbeat(t) ==
  /\ t \notin free_ids
  /\ frontend_heartbeat' = frontend_heartbeat \cup {t}
  /\ UNCHANGED << conversion_status, conversion_processes, disk_vars, free_ids, proc, worker,
                  thread_vars, history_vars >>

-----------------------------------------------------------------------------
\* One job under cancel, status and download requests.
Next ==
  \E t \in TaskIds :
    \/ Submit(t) \/ SubmitLaunchError(t)
    \/ WorkerRead(t) \/ WorkerFlush(t) \/ WorkerOpen(t) \/ WorkerCallback(t)
    \/ WorkerConvert(t) \/ WorkerConvertFails(t) \/ WorkerSave(t) \/ WorkerExists(t)
    \/ WorkerRemoveFiles(t) \/ WorkerRemovePdf(t) \/ WorkerRemoveOutput(t)
    \/ WorkerExit(t) \/ WorkerCrash(t) \/ ProcessDies(t)
    \/ MonitorStart(t) \/ MonitorPoll(t) \/ MonitorFinal(t) \/ MonitorCheck(t)
    \/ MonitorDel(t) \/ MonitorRemove(t)
    \/ CancelRequest(t) \/ CancelSetStatus(t) \/ CancelSetMessage(t) \/ CancelSetStep(t)
    \/ CancelCheckProcess(t) \/ CancelGetProcess(t) \/ CancelOpen(t) \/ CancelFlush(t)
    \/ CancelGrace1(t) \/ CancelGrace2(t) \/ CancelCheckDel(t) \/ CancelDel(t)
    \/ GetStatus(t) \/ Download(t)

Spec == Init /\ [][Next]_vars

\* One job under cleanup, heartbeat, status and download requests.
NextCleanup ==
  \E t \in TaskIds :
    \/ Submit(t) \/ SubmitLaunchError(t)
    \/ WorkerRead(t) \/ WorkerFlush(t) \/ WorkerOpen(t) \/ WorkerCallback(t)
    \/ WorkerConvert(t) \/ WorkerConvertFails(t) \/ WorkerSave(t) \/ WorkerExists(t)
    \/ WorkerRemoveFiles(t) \/ WorkerRemovePdf(t) \/ WorkerRemoveOutput(t)
    \/ WorkerExit(t) \/ WorkerCrash(t)
    \/ MonitorStart(t) \/ MonitorPoll(t) \/ MonitorFinal(t) \/ MonitorCheck(t)
    \/ MonitorDel(t) \/ MonitorRemove(t)
    \/ CleanupUploads(t, 1) \/ CleanupRemoveUpload(t, 1) \/ CleanupOutputs(t, 1)
    \/ CleanupRemoveOutput(t, 1) \/ CleanupCheckRecord(t, 1) \/ CleanupRecord(t, 1)
    \/ GetStatus(t) \/ Download(t) \/ Heartbeat(t)

SpecCleanup == Init /\ [][NextCleanup]_vars

\* Every request against one job.
NextAll == Next \/ NextCleanup

SpecAll == Init /\ [][NextAll]_vars

\* Two jobs side by side: J4 is cancelled while its worker is inside the
\* converter (it writes no status), J5 runs through the fixed phases.
J4 == "t1"
J5 == "t2"

NextTwoJobs ==
  \/ \E t \in {J4, J5} :
       \/ Submit(t) \/ SubmitLaunchError(t)
       \/ MonitorStart(t) \/ MonitorPoll(t) \/ MonitorFinal(t) \/ MonitorCheck(t)
       \/ MonitorDel(t) \/ MonitorRemove(t)
       \/ GetStatus(t) \/ Heartbeat(t)
  \/ WorkerRead(J5) \/ WorkerFlush(J5)
  \/ ProcessDies(J4)
  \/ CancelRequest(J4) \/ CancelSetStatus(J4) \/ CancelSetMessage(J4) \/ CancelSetStep(J4)
  \/ CancelCheckProcess(J4) \/ CancelGetProcess(J4) \/ CancelOpen(J4) \/ CancelFlush(J4)
  \/ CancelGrace1(J4) \/ CancelGrace2(J4) \/ CancelCheckDel(J4) \/ CancelDel(J4)

SpecTwoJobs == InitWith({J4, J5}) /\ [][NextTwoJobs]_vars

\* A cleanup request for a job whose monitor thread has ended.
CleanupAfterJob(t, r) == monitor[t] = "done" /\ CleanupUploads(t, r)

\* One job and, once its monitor thread has ended, concurrent cleanup requests.
NextCleanupTwice ==
  \E t \in TaskIds :
    \/ Submit(t)
    \/ WorkerRead(t) \/ WorkerFlush(t) \/ WorkerOpen(t) \/ WorkerCallback(t)
    \/ WorkerConvert(t) \/ WorkerConvertFails(t) \/ WorkerSave(t) \/ WorkerExists(t)
    \/ WorkerRemoveFiles(t) \/ WorkerRemovePdf(t) \/ WorkerRemoveOutput(t)
    \/ WorkerExit(t) \/ WorkerCrash(t)
    \/ MonitorStart(t) \/ MonitorPoll(t) \/ MonitorFinal(t) \/ MonitorCheck(t)
    \/ MonitorDel(t) \/ MonitorRemove(t)
    \/ \E r \in Slots :
         \/ CleanupAfterJob(t, r) \/ CleanupRemoveUpload(t, r) \/ CleanupOutputs(t, r)
         \/ CleanupRemoveOutput(t, r) \/ CleanupCheckRecord(t, r) \/ CleanupRecord(t, r)

SpecCleanupTwice == Init /\ [][NextCleanupTwice]_vars

\* A cleanup request that arrives while no other cleanup request is served.
CleanupAlone(x, r) == (\A y \in CleanupIds : CleanerIdle(y)) /\ CleanupUploads(x, r)

\* Two jobs side by side, J5 converting up to the saved document, and cleanup
\* requests, one at a time, that name either job or the leading part both ids
\* share.
NextPrefix ==
  \/ \E t \in {J4, J5} :
       \/ Submit(t)
       \/ MonitorStart(t) \/ MonitorPoll(t)
  \/ WorkerRead(J5) \/ WorkerFlush(J5) \/ WorkerOpen(J5) \/ WorkerConvert(J5) \/ WorkerSave(J5)
  \/ \E x \in CleanupIds :
       \/ CleanupAlone(x, 1) \/ CleanupRemoveUpload(x, 1) \/ CleanupOutputs(x, 1)
       \/ CleanupRemoveOutput(x, 1) \/ CleanupCheckRecord(x, 1) \/ CleanupRecord(x, 1)

SpecPrefix == InitWith({J4, J5}) /\ [][NextPrefix]_vars

\* A heartbeat of the page that waits for a job whose worker is running.
HeartbeatWhileRunning(t) == Alive(t) /\ Heartbeat(t)

\* One job under cancel, status and download requests, with heartbeats that
\* arrive only while its worker runs.
NextHeartbeat == Next \/ \E t \in TaskIds : HeartbeatWhileRunning(t)

SpecHeartbeat == Init /\ [][NextHeartbeat]_vars

-----------------------------------------------------------------------------
(* Properties *)

HasRecord(t) == t \in DOMAIN conversion_status

\* The status of the job's record; None when there is no record or no status key.
StatusOf(t) == IF HasRecord(t) THEN Get(conversion_status[t], "status") ELSE None

\* The status file holds an object with a terminal status.
FileTerminal(t) == Readable(t) /\ Get(status_files[t].obj, "status") \in TerminalStatus

\* The monitor thread makes its final read of the status file in this step.
MonitorResolves(t) == monitor[t] = "loop" /\ monitor'[t] = "check"

\* The request in flight of cancel_task takes a step.
CancelSteps(t) == canceller[t].pc # "idle" /\ canceller'[t].pc # canceller[t].pc

\* cancel_task returns its answer {'status': 'cancelled'}.
CancelReturns(t) ==
  /\ canceller[t].pc \in {"check_process", "check_del", "del"}
  /\ canceller'[t].pc = "idle"

\* No request and no thread of the supervisor is at work on the job any more.
Settled(t) == monitor[t] = "done" /\ canceller[t].pc = "idle" /\ CleanerIdle(t)

\* C1: once a record's status is completed, error or cancelled, no step gives
\* the record a different status.
C1_TerminalStatusIsFinal ==
  [][\A t \in TaskIds :
       (HasRecord(t) /\ StatusOf(t) \in TerminalStatus /\ HasRecord(t)')
         => StatusOf(t)' = StatusOf(t)]_vars

\* C2: a job whose cancel request was accepted while its status was converting,
\* and whose worker the request had to signal, has status cancelled once the
\* request has returned and the monitor is done (a job that ends with status
\* error instead is the subject of C5).
C2_CancelledOnceMonitorDone ==
  \A t \in TaskIds :
    (t \in user_cancelled /\ proc[t].sig # "none" /\ Settled(t) /\ StatusOf(t) # "error")
      => StatusOf(t) = "cancelled"

\* C3: when cancel_task returns its answer, the job's worker process has exited
\* or has been sent the kill signal, which it cannot survive.
C3_CancelStopsWorker ==
  [][\A t \in TaskIds :
       CancelReturns(t) => (proc'[t].state # "running" \/ proc'[t].sig = "kill")]_vars

\* C3 witness: a cancel request went through both grace periods, sent the
\* kill signal and returned, and the process is gone.
C3_Witness ==
  \E t \in TaskIds :
    /\ t \in user_cancelled
    /\ canceller[t].pc = "idle"
    /\ proc[t].sig = "kill"
    /\ proc[t].state = "exited"

\* C4: a cancel request that found the record's status terminal changes neither
\* the record nor the process (no signal is sent) in any of its steps.
C4_CancelOnTerminalIsNoOp ==
  [][\A t \in TaskIds :
       (CancelSteps(t) /\ canceller[t].entry \in TerminalStatus)
         => (conversion_status' = conversion_status /\ proc' = proc)]_vars

\* C5: a job cancelled by an accepted cancel request never ends with status
\* error once the request has returned and the monitor is done.
C5_CancelledNeverError ==
  \A t \in TaskIds :
    (t \in user_cancelled /\ Settled(t)) => StatusOf(t) # "error"

\* C6: when the process has exited with a non-zero code and the status file
\* holds no terminal status, the monitor's final read leaves the record with
\* status error and a message naming the exit code.
C6_NonZeroExitBecomesError ==
  [][\A t \in TaskIds :
       (MonitorResolves(t) /\ proc[t].rc # 0 /\ ~FileTerminal(t))
         => /\ StatusOf(t)' = "error"
            /\ Get(conversion_status'[t], "message") = ExitMessage(proc[t].rc)]_vars

\* C7: when the process has exited with code zero and the status file is
\* unreadable or holds no terminal status, the monitor's final read leaves the
\* record (when there is one) with status error.
C7_ZeroExitBecomesError ==
  [][\A t \in TaskIds :
       (MonitorResolves(t) /\ proc[t].rc = 0 /\ ~FileTerminal(t) /\ HasRecord(t)')
         => StatusOf(t)' = "error"]_vars

\* C8: outside a cleanup request in flight, a record with status completed has
\* its output file on disk.
C8_CompletedHasOutput ==
  \A t \in TaskIds :
    (CleanerIdle(t) /\ StatusOf(t) = "completed") => t \in output_files

\* C9: once the monitor is done and no request is in flight, a record with
\* status error or cancelled has no output file on disk.
C9_FailedHasNoOutput ==
  \A t \in TaskIds :
    (Settled(t) /\ StatusOf(t) \in {"error", "cancelled"}) => t \notin output_files

\* C10: download_file sends a file only for a job whose record has status
\* completed; an unknown id or any other status gets an error answer.
C10_DownloadOnlyWhenCompleted ==
  [][\A t \in TaskIds :
       (t \in served' /\ t \notin served)
         => (HasRecord(t) /\ StatusOf(t) = "completed")]_vars

\* C10 witness: a file has been sent for a job.
C10_Witness == \E t \in TaskIds : t \in served

\* The last cleanup_files request of the job's first slot has answered 200 and
\* the slot serves no request now.
CleanedUp(t) == cleaner[t][1].pc = "idle" /\ cleaner[t][1].result = "200"

\* C11: after a cleanup request has answered with success, the job has no
\* record, no upload, no status file and no output file, and a status query
\* answers 404, also while the worker and the monitor are still running.
C11_CleanedUpStaysGone ==
  \A t \in TaskIds :
    CleanedUp(t) =>
      /\ StatusResponse(t) = "404"
      /\ t \notin pdf_files
      /\ t \notin DOMAIN status_files
      /\ t \notin output_files

\* A step of the cancel_task request in flight for the job, its 404 check included.
CancelActs(t) == canceller'[t].pc # canceller[t].pc

\* The step leaves the job's record, status file, heartbeat entry, process
\* entry, process and worker as they were.
Untouched(u) ==
  /\ (u \in DOMAIN conversion_status') = (u \in DOMAIN conversion_status)
  /\ u \in DOMAIN conversion_status => conversion_status'[u] = conversion_status[u]
  /\ (u \in DOMAIN status_files') = (u \in DOMAIN status_files)
  /\ u \in DOMAIN status_files => status_files'[u] = status_files[u]
  /\ (u \in frontend_heartbeat') = (u \in frontend_heartbeat)
  /\ (u \in conversion_processes') = (u \in conversion_processes)
  /\ proc'[u] = proc[u]
  /\ worker'[u] = worker[u]

\* C12: no step of a cancel request for one job changes another job's record,
\* status file, heartbeat entry, process entry or worker process.
C12_CancelLeavesOtherJob ==
  [][\A t, u \in TaskIds : (t # u /\ CancelActs(t)) => Untouched(u)]_vars

\* C12 witness: the cancel of J4 went up to the kill and returned while J5 is
\* still converting, with a heartbeat entry and a record that shows progress.
C12_Witness ==
  /\ J4 \in user_cancelled /\ canceller[J4].pc = "idle" /\ proc[J4].sig = "kill"
  /\ Alive(J5) /\ J5 \in frontend_heartbeat /\ J5 \in conversion_processes
  /\ HasRecord(J5) /\ "progress" \in DOMAIN conversion_status[J5]
  /\ conversion_status[J5].progress > 0

\* The worker enters update_status: it reads the file and merges its data.
WorkerWrites(t) == worker[t].ph = "rd" /\ worker'[t].ph = "wr"

\* The update_status call is the first one of the fallback conversion.
FallbackStart(t) == worker[t].fb /\ worker[t].pc = "page_update" /\ worker[t].page = 1

\* C13: the progress the worker writes is never below the progress it finds
\* in the status file, except in the first write of the fallback conversion.
C13_ProgressNeverDecreases ==
  [][\A t \in TaskIds :
       (/\ WorkerWrites(t)
        /\ Readable(t)
        /\ "progress" \in DOMAIN status_files[t].obj
        /\ "progress" \in DOMAIN UpdateData(worker[t]))
         => \/ worker'[t].buf.progress >= status_files[t].obj.progress
            \/ FallbackStart(t)]_vars

\* convert_pdf has started the job's worker and returned the task id.
Submitted(t) == proc[t].state # "none"

\* C14: from the moment convert_pdf has returned the task id, the job has a
\* record, so that a status query (and the same check of cancel_task) does
\* not answer 404.
C14_RecordExistsOnceSubmitted ==
  \A t \in TaskIds : Submitted(t) => StatusResponse(t) = "200"

\* convert_pdf drew the id and answered 500 because the worker did not start.
LaunchFailed(t) == t \notin free_ids /\ proc[t].state = "none"

\* C15: a submission whose worker failed to start leaves no record, no process
\* entry and no monitor thread for its id, then and ever after.
C15_LaunchErrorCreatesNoJob ==
  \A t \in TaskIds :
    LaunchFailed(t) =>
      /\ ~HasRecord(t)
      /\ t \notin conversion_processes
      /\ monitor[t] = "none"

\* C15 witness: the launch of J4 failed (its upload and seeded status file are
\* on disk, a heartbeat for its id arrived) while J5 is running.
C15_Witness ==
  /\ LaunchFailed(J4) /\ J4 \in pdf_files /\ Readable(J4) /\ J4 \in frontend_heartbeat
  /\ Alive(J5) /\ HasRecord(J5)

\* C16: when cancel_task returns, the status in its answer is the status the
\* job's record holds at that moment.
C16_CancelAnswerIsRecordStatus ==
  [][\A t \in TaskIds : CancelReturns(t) => StatusOf(t)' = CancelResponse]_vars

\* A terminate or kill signal is sent to the job's process in this step.
SignalSent(t) == proc'[t].sig # proc[t].sig

\* C17: a signal is sent to a job's process only by a cancel_task request for
\* that job, at its terminate or kill statement; no heartbeat, status query or
\* monitor step sends one, whether the job has a heartbeat entry or not.
C17_SignalsOnlyFromCancel ==
  [][\A t \in TaskIds :
       SignalSent(t) => (canceller[t].pc \in {"grace1", "grace2"} /\ CancelActs(t))]_vars

\* C17 witness: J4 has been sent the terminate signal by its cancel request
\* and J5, which has no heartbeat entry, runs unsignalled.
C17_Witness ==
  /\ proc[J4].sig = "term" /\ canceller[J4].pc = "grace2"
  /\ Alive(J5) /\ proc[J5].sig = "none" /\ J5 \notin frontend_heartbeat /\ monitor[J5] = "loop"

\* The monitor is in its polling loop, the process is alive and the status
\* file does not parse (it is missing, truncated by a writer, or garbled).
FailedRead(t) == monitor[t] = "loop" /\ Alive(t) /\ ~Readable(t)

\* C18: a read of the status file that fails while the process is alive leaves
\* the registry exactly as it was, in the monitor's poll and in get_status,
\* and the monitor stays in its polling loop.
C18_FailedReadIsTransient ==
  /\ [](\A t \in TaskIds :
          FailedRead(t) =>
            /\ Mirrored(t) = conversion_status
            /\ HasRecord(t) => StatusMerged(t) = conversion_status)
  /\ [][\A t \in TaskIds : FailedRead(t) => monitor'[t] = "loop"]_vars

\* C18 witness: the monitor polls while the worker has truncated the status
\* file for its next write, and the record holds an earlier snapshot.
C18_Witness ==
  \E t \in TaskIds :
    /\ FailedRead(t) /\ status_files[t] = EmptyFile /\ worker[t].ph = "wr"
    /\ HasRecord(t) /\ StatusOf(t) = "converting"
    /\ "progress" \in DOMAIN conversion_status[t] /\ conversion_status[t].progress > 0

\* A cleanup_files request of the job returns its answer in this step.
CleanupReturns(t, r) == cleaner[t][r].pc # "idle" /\ cleaner'[t][r].pc = "idle"

\* C19: every cleanup request for a job that has ended answers with success,
\* also when another cleanup request for the same job is in flight.
C19_EveryCleanupSucceeds ==
  [][\A t \in TaskIds : \A r \in Slots :
       CleanupReturns(t, r) => cleaner'[t][r].result = "200"]_vars

\* C20: cancel_task escalates in a fixed order. The first grace period starts
\* when the note has been written to the status file; at its end the process
\* is sent terminate if and only if it is alive; the second grace period
\* follows a terminate only; at its end the process is sent kill if and only
\* if it is alive. So a kill always follows a terminate, and a process that
\* has exited is never signalled.
C20_CancelEscalatesInOrder ==
  [][\A t \in TaskIds :
       /\ (CancelActs(t) /\ canceller'[t].pc = "grace1") => canceller[t].pc = "write_flush"
       /\ (CancelActs(t) /\ canceller'[t].pc = "grace2") =>
            (canceller[t].pc = "grace1" /\ proc'[t].sig = "term")
       /\ (CancelActs(t) /\ canceller[t].pc = "grace1") =>
            IF Alive(t) THEN proc[t].sig = "none" /\ proc'[t].sig = "term" ELSE proc' = proc
       /\ (CancelActs(t) /\ canceller[t].pc = "grace2") =>
            IF Alive(t) THEN proc[t].sig = "term" /\ proc'[t].sig = "kill" ELSE proc' = proc
       /\ SignalSent(t) => (Alive(t) /\ canceller[t].pc \in {"grace1", "grace2"})]_vars

\* C20 witness: the note is in the status file, terminate and then kill were
\* sent, and the process has not died yet.
C20_Witness ==
  \E t \in TaskIds :
    /\ canceller[t].pc = "check_del" /\ proc[t].sig = "kill" /\ Alive(t)
    /\ Readable(t) /\ status_files[t].obj = CancelNote

\* The worker process has exited and the monitor thread has returned.
JobOver(t) == proc[t].state = "exited" /\ monitor[t] = "done"

\* C21: once a job's worker has exited and its monitor has returned, the job
\* has no status file, no process entry and no heartbeat entry, however it
\* ended and whenever its heartbeats arrived while it was running.
C21_ResourcesReleasedOnceOver ==
  \A t \in TaskIds :
    JobOver(t) =>
      /\ t \notin DOMAIN status_files
      /\ t \notin conversion_processes
      /\ t \notin frontend_heartbeat

\* The job's process entry is removed in this step.
EntryRemoved(t) == t \in conversion_processes /\ t \notin conversion_processes'

\* C22: a job's process entry is removed by its monitor thread only; neither
\* the monitor's del nor cancel_task's lookup and del finds the entry gone
\* (KeyError); and a status file the monitor has removed is not created again.
C22_MonitorAloneReleases ==
  [][\A t \in TaskIds :
       /\ EntryRemoved(t) => monitor[t] = "del"
       /\ (monitor[t] = "del" /\ monitor'[t] # "del") => t \in conversion_processes
       /\ (canceller[t].pc \in {"get_process", "del"} /\ CancelActs(t))
            => t \in conversion_processes
       /\ (monitor[t] = "done" /\ t \notin DOMAIN status_files)
            => t \notin DOMAIN status_files']_vars

\* C23: no record shows a part of cancel_task's update next to a part of
\* another write: a record whose step is cancelled has status cancelled.
C23_RecordUpdatesAreAtomic ==
  \A t \in TaskIds :
    (HasRecord(t) /\ Get(conversion_status[t], "step") = "cancelled")
      => StatusOf(t) = "cancelled"

\* The worker finishes update_status in this step: json.dump and close.
WorkerFlushes(t) == worker[t].ph = "wr" /\ worker'[t].ph = "rd" /\ worker'[t].pc # "none"

\* C24: a write of the worker keeps every field of the status file that is
\* not in the data it writes, so a cancellation note in the file keeps its
\* status under a progress update.
C24_WorkerWriteMerges ==
  [][\A t \in TaskIds :
       (WorkerFlushes(t) /\ Readable(t)) =>
         \A k \in (DOMAIN status_files[t].obj) \ (DOMAIN UpdateData(worker[t])) :
           /\ t \in DOMAIN status_files'
           /\ k \in DOMAIN status_files'[t].obj
           /\ status_files'[t].obj[k] = status_files[t].obj[k]]_vars

\* The cancel_task request in flight has written its note to the status file.
IntentWritten(t) == canceller[t].pc \in {"grace1", "grace2", "check_del", "del"}

\* C25: once cancel_task has written its note to the status file, the worker
\* does not write status completed.
C25_NoCompletedAfterIntent ==
  [][\A t \in TaskIds :
       (IntentWritten(t) /\ WorkerFlushes(t) /\ t \in DOMAIN status_files')
         => Get(status_files'[t].obj, "status") # "completed"]_vars

\* The positions of the outer handler after its update_status call.
RemovalPcs == {"remove_files", "remove_pdf", "remove_output"}

\* C26: the write of the failure handler has status error and a non-empty
\* error field; no write follows it; the worker leaves the handler only through
\* the removal of the output file; after the completed write nothing is written.
C26_FailureWriteIsLast ==
  [][\A t \in TaskIds :
       /\ (WorkerFlushes(t) /\ worker[t].pc = "error") =>
            /\ Get(worker[t].buf, "status") = "error"
            /\ Get(worker[t].buf, "error") \notin {None, ""}
       /\ worker[t].pc \in RemovalPcs \cup {"exit"} => worker'[t].pc \notin UpdatePcs
       /\ (worker[t].pc \in RemovalPcs /\ worker'[t].pc = "exit") =>
            worker[t].pc = "remove_output"]_vars

StatusValues == {"converting", "completed", "error", "cancelled"}

\* C27: every record in conversion_status has a status field whose value is
\* converting, completed, error or cancelled.
C27_RecordHasStatus ==
  \A t \in TaskIds : HasRecord(t) => StatusOf(t) \in StatusValues

\* A cleanup request for x takes a step.
CleanupActs(x) == cleaner'[x] # cleaner[x]

\* The files and the record of job u.
Belongings(u) ==
  [pdf |-> u \in pdf_files, output |-> u \in output_files,
   status |-> IF u \in DOMAIN status_files THEN status_files[u] ELSE EmptyFile,
   status_there |-> u \in DOMAIN status_files,
   record |-> IF HasRecord(u) THEN conversion_status[u] ELSE EmptyDict,
   record_there |-> HasRecord(u)]

\* C28: a cleanup request for x leaves the input, output and status files and
\* the record of every job whose id is not x as they are.
C28_CleanupTouchesOnlyItsJob ==
  [][\A x \in CleanupIds : \A u \in TaskIds :
       (CleanupActs(x) /\ u # x) => Belongings(u)' = Belongings(u)]_vars

====
